---- MODULE Spec2Model ----
(***************************************************************************)
(* Model of src/obj/symbols.rs: the symbol table ObjSymbols (an arena of   *)
(* ObjSymbol records plus three indices holding arena positions), its      *)
(* insertion, merge and replace operations, and relocation-target          *)
(* resolution (referenced_by, best_match_for_reloc, for_relocation).       *)
(*                                                                         *)
(* Conventions.                                                            *)
(*  - Option<T> is a sequence: None is <<>>, Some(v) is <<v>>.             *)
(*  - A String is a sequence of one-character strings, so that             *)
(*    starts_with and is_empty are computed on the text itself.            *)
(*  - A SymbolIndex is 0-based as in Rust; the arena is a TLA+ sequence,   *)
(*    so index i lives at position i + 1.                                  *)
(*  - A BTreeMap / HashMap is a function whose DOMAIN is the set of keys   *)
(*    present; Vec<BTreeMap> is a sequence of such functions.              *)
(*  - Result<T> is a record [status, val, err]: status "Ok" carries val,   *)
(*    an Option (empty for the unit value, <<i>> for a SymbolIndex i);     *)
(*    status "Err" carries the error text; status "Panic" is a Rust panic  *)
(*    (index out of bounds).                                               *)
(*  - Addresses and sizes of the model are far below 2^31, so the          *)
(*    `as u32` / `as u64` casts of the source lose nothing on them.        *)
(***************************************************************************)
EXTENDS Integers, Sequences, FiniteSets, TLC

VARIABLES
    obj_kind,            \* ObjSymbols.obj_kind
    symbols,             \* ObjSymbols.symbols            (the arena)
    symbols_by_address,  \* ObjSymbols.symbols_by_address (global address index)
    symbols_by_name,     \* ObjSymbols.symbols_by_name    (name index)
    symbols_by_section,  \* ObjSymbols.symbols_by_section (per-section address indices)
    answer               \* the result of a for_relocation call the caller still holds; it
                         \* borrows the table, so no mutation happens until it is dropped

vars == <<obj_kind, symbols, symbols_by_address, symbols_by_name, symbols_by_section, answer>>

----------------------------------------------------------------------------
(* Option, Result and text helpers *)

None == <<>>

Some(v) == <<v>>

Ok(v) == [status |-> "Ok", val |-> v, err |-> ""]

Err(e) == [status |-> "Err", val |-> None, err |-> e]

Panic == [status |-> "Panic", val |-> None, err |-> "index out of bounds"]

starts_with(name, prefix) ==
    /\ Len(name) >= Len(prefix)
    /\ SubSeq(name, 1, Len(prefix)) = prefix

\* The empty map (BTreeMap::new / HashMap::new).
EmptyMap == [k \in {} |-> <<>>]

\* The least element of a non-empty set of integers.
SetMin(S) == CHOOSE x \in S : \A y \in S : x <= y

\* The greatest element of a non-empty set of integers.
SetMax(S) == CHOOSE x \in S : \A y \in S : x >= y

----------------------------------------------------------------------------
(* Enumerations *)

ObjSymbolKind == {"Unknown", "Function", "Object", "Section"}

ObjDataKind == {"Unknown", "Byte", "Byte2", "Byte4", "Byte8", "Float", "Double",
                "String", "String16", "StringTable", "String16Table"}

ObjSymbolFlags == {"Global", "Local", "Weak", "Common", "Hidden", "ForceActive",
                   "RelocationIgnore"}

ObjKind == {"Relocatable", "Executable"}

ObjRelocKind == {"Absolute", "PpcAddr16Hi", "PpcAddr16Ha", "PpcAddr16Lo",
                 "PpcRel24", "PpcRel14", "PpcEmbSda21"}

\* flags.is_common()
is_common(flags) == "Common" \in flags

\* flags.is_relocation_ignore()
is_relocation_ignore(flags) == "RelocationIgnore" \in flags

ObjSymbolScope == {"Unknown", "Global", "Weak", "Local"}

\* flags.is_local()
is_local(flags) == "Local" \in flags

\* flags.is_weak()
is_weak(flags) == "Weak" \in flags

\* ObjSymbolFlagSet::scope
scope(flags) ==
    IF is_local(flags) THEN "Local"
    ELSE IF is_weak(flags) THEN "Weak"
    ELSE IF "Global" \in flags THEN "Global"
    ELSE "Unknown"

\* set_scope whose Global case clears the Local bit only.
set_scope_KeepsWeak(flags, s) ==
    CASE s = "Unknown" -> flags \ {"Local", "Global", "Weak"}
      [] s = "Global"  -> (flags \ {"Local"}) \cup {"Global"}
      [] s = "Weak"    -> (flags \ {"Local", "Global"}) \cup {"Weak"}
      [] s = "Local"   -> (flags \ {"Global", "Weak"}) \cup {"Local"}

\* ObjSymbolFlagSet::set_scope
set_scope(flags, s) ==
    CASE s = "Unknown" -> flags \ {"Local", "Global", "Weak"}
      [] s = "Global"  -> (flags \ {"Local", "Weak"}) \cup {"Global"}
      [] s = "Weak"    -> (flags \ {"Local", "Global"}) \cup {"Weak"}
      [] s = "Local"   -> (flags \ {"Global", "Weak"}) \cup {"Local"}

\* `address as u32`: lossless on the addresses of the model (all below 2^31).
AsU32(address) == address

----------------------------------------------------------------------------
(* Naming conventions supplied by the utility collaborator *)

Text_lbl == <<"l", "b", "l", "_">>

Text_fn == <<"f", "n", "_">>

Text_dotdot == <<".", ".">>

Text_ctors == <<"_", "c", "t", "o", "r", "s">>

Text_SDA_BASE == <<"_", "S", "D", "A", "_", "B", "A", "S", "E", "_">>

\* "is this an auto-generated placeholder symbol name"
is_auto_symbol(name) == starts_with(name, Text_lbl) \/ starts_with(name, Text_fn)

\* "is this a linker-generated split-address label"
is_linker_generated_label(name) == name \in {Text_ctors, Text_SDA_BASE}

----------------------------------------------------------------------------
(* NestedVec: a map from key to Vec *)

\* nested_push: append v to the Vec under key k, creating the entry if absent.
nested_push(m, k, v) ==
    IF k \in DOMAIN m
    THEN [m EXCEPT ![k] = Append(@, v)]
    ELSE [x \in DOMAIN m \cup {k} |-> IF x = k THEN <<v>> ELSE m[x]]

\* nested_remove: drop every occurrence of v from the Vec under key k, if any.
nested_remove(m, k, v) ==
    IF k \in DOMAIN m
    THEN [m EXCEPT ![k] = SelectSeq(@, LAMBDA e : e # v)]
    ELSE m

----------------------------------------------------------------------------
(* The symbol record and the table *)

\* struct ObjSymbol
ObjSymbol(name, demangled_name, address, section, size, size_known, flags, kind, align, data_kind) ==
    [name |-> name, demangled_name |-> demangled_name, address |-> address,
     section |-> section, size |-> size, size_known |-> size_known, flags |-> flags,
     kind |-> kind, align |-> align, data_kind |-> data_kind]

\* struct ObjSymbols, as a value
ObjSymbols(kind, syms, by_address, by_name, by_section) ==
    [obj_kind |-> kind, symbols |-> syms, symbols_by_address |-> by_address,
     symbols_by_name |-> by_name, symbols_by_section |-> by_section]

\* Vec::resize_with(section_idx + 1, BTreeMap::new) when section_idx >= len
resize_sections(by_section, section_idx) ==
    IF section_idx >= Len(by_section)
    THEN by_section \o [i \in 1..(section_idx + 1 - Len(by_section)) |-> EmptyMap]
    ELSE by_section

\* symbols_by_section[section_idx].nested_push(addr, idx), after the resize
push_section(by_section, section_idx, addr, idx) ==
    LET grown == resize_sections(by_section, section_idx)
    IN  [grown EXCEPT ![section_idx + 1] = nested_push(@, addr, idx)]

\* The loop body of new with the name index storing one index per name: a later
\* symbol of the same name takes the place of the earlier one.
new_step_NameOverwrites(self, symbol, idx) ==
    ObjSymbols(
        self.obj_kind,
        Append(self.symbols, symbol),
        nested_push(self.symbols_by_address, AsU32(symbol.address), idx),
        IF symbol.name # <<>>
        THEN [n \in DOMAIN self.symbols_by_name \cup {symbol.name} |->
                 IF n = symbol.name THEN <<idx>> ELSE self.symbols_by_name[n]]
        ELSE self.symbols_by_name,
        IF symbol.section # None
        THEN push_section(self.symbols_by_section, symbol.section[1],
                          AsU32(symbol.address), idx)
        ELSE self.symbols_by_section)

\* One iteration of the loop of ObjSymbols::new, for the symbol at position idx.
\* The debug_assert on unsectioned symbols is compiled out of release builds and
\* aborts construction in debug builds; the table built is the release one.
new_step(self, symbol, idx) ==
    ObjSymbols(
        self.obj_kind,
        Append(self.symbols, symbol),
        nested_push(self.symbols_by_address, AsU32(symbol.address), idx),
        IF symbol.name # <<>>
        THEN nested_push(self.symbols_by_name, symbol.name, idx)
        ELSE self.symbols_by_name,
        IF symbol.section # None
        THEN push_section(self.symbols_by_section, symbol.section[1],
                          AsU32(symbol.address), idx)
        ELSE self.symbols_by_section)

RECURSIVE new_loop(_, _, _)
new_loop(self, list, idx) ==
    IF idx >= Len(list) THEN self
    ELSE new_loop(new_step(self, list[idx + 1], idx), list, idx + 1)

\* ObjSymbols::new
new(kind, list) ==
    new_loop(ObjSymbols(kind, <<>>, EmptyMap, EmptyMap, <<>>), list, 0)

\* ObjSymbols::count
count(self) == Len(self.symbols)

\* impl Index<SymbolIndex> for ObjSymbols
at(self, index) == self.symbols[index + 1]

\* ObjSymbols::at_section_address: the indices at (section_idx, addr), in bucket order
at_section_address(self, section_idx, addr) ==
    IF /\ section_idx < Len(self.symbols_by_section)
       /\ addr \in DOMAIN self.symbols_by_section[section_idx + 1]
    THEN self.symbols_by_section[section_idx + 1][addr]
    ELSE <<>>

\* Iterator::find on a sequence of indices: the first one whose symbol passes
find_first(idxs) == IF idxs = <<>> THEN None ELSE Some(Head(idxs))

\* kind_at_section_address returning the first symbol of the kind when there are several.
kind_at_section_address_TakesFirst(self, section_idx, addr, kind) ==
    Ok(find_first(SelectSeq(at_section_address(self, section_idx, addr),
                            LAMBDA i : at(self, i).kind = kind)))

\* ObjSymbols::kind_at_section_address: at_most_one of the symbols of the kind
kind_at_section_address(self, section_idx, addr, kind) ==
    LET found == SelectSeq(at_section_address(self, section_idx, addr),
                           LAMBDA i : at(self, i).kind = kind)
    IN  IF Len(found) > 1
        THEN Err("Multiple symbols of kind at address")
        ELSE Ok(found)

\* ObjSymbols::for_name: the indices filed under the name, in bucket order
for_name(self, name) ==
    IF name \in DOMAIN self.symbols_by_name THEN self.symbols_by_name[name] ELSE <<>>

\* The Vecs of a BTreeMap<u32, Vec<_>> chained in ascending key order, keys in `keys`.
RECURSIVE flatten_ascending(_, _)
flatten_ascending(m, keys) ==
    IF keys = {} THEN <<>>
    ELSE LET k == SetMin(keys)
         IN  m[k] \o flatten_ascending(m, keys \ {k})

\* ObjSymbols::iter_abs: the unsectioned symbols' indices, by ascending address
iter_abs(self) ==
    SelectSeq(flatten_ascending(self.symbols_by_address, DOMAIN self.symbols_by_address),
              LAMBDA u : at(self, u).section = None)

----------------------------------------------------------------------------
(* Mutation: replace, add_direct, add.  Each returns [self, result]. *)

Outcome(self, result) == [self |-> self, result |-> result]

\* The name-index update leaving the index filed under the old name.
replace_name_index_KeepsOld(by_name, old_name, new_name, index) ==
    IF old_name # new_name /\ new_name # <<>>
    THEN nested_push(by_name, new_name, index)
    ELSE by_name

\* The name-index update of ObjSymbols::replace
replace_name_index(by_name, old_name, new_name, index) ==
    IF old_name # new_name
    THEN LET removed == IF old_name # <<>>
                        THEN nested_remove(by_name, old_name, index)
                        ELSE by_name
         IN  IF new_name # <<>>
             THEN nested_push(removed, new_name, index)
             ELSE removed
    ELSE by_name

\* replace without the check of the section: a record of another section is stored.
replace_SkipSectionCheck(self, index, symbol) ==
    LET symbol_ref == at(self, index)
    IN  IF symbol_ref.address # symbol.address
        THEN Outcome(self, Err("Can't modify address with replace_symbol"))
        ELSE Outcome(
                [self EXCEPT
                    !.symbols_by_name =
                        replace_name_index(@, symbol_ref.name, symbol.name, index),
                    !.symbols = [@ EXCEPT ![index + 1] = symbol]],
                Ok(None))

\* replace without the check of the address: a record of another address is stored.
replace_SkipAddressCheck(self, index, symbol) ==
    LET symbol_ref == at(self, index)
    IN  IF symbol_ref.section # symbol.section
        THEN Outcome(self, Err("Can't modify section with replace_symbol"))
        ELSE Outcome(
                [self EXCEPT
                    !.symbols_by_name =
                        replace_name_index(@, symbol_ref.name, symbol.name, index),
                    !.symbols = [@ EXCEPT ![index + 1] = symbol]],
                Ok(None))

\* ObjSymbols::replace (index < count; a larger index panics on self.symbols[index])
replace(self, index, symbol) ==
    LET symbol_ref == at(self, index)
    IN  IF symbol_ref.address # symbol.address
        THEN Outcome(self, Err("Can't modify address with replace_symbol"))
        ELSE IF symbol_ref.section # symbol.section
        THEN Outcome(self, Err("Can't modify section with replace_symbol"))
        ELSE Outcome(
                [self EXCEPT
                    !.symbols_by_name =
                        replace_name_index(@, symbol_ref.name, symbol.name, index),
                    !.symbols = [@ EXCEPT ![index + 1] = symbol]],
                Ok(None))

\* The ensure! of ObjSymbols::add_direct on an unsectioned symbol
abs_symbol_allowed(kind, in_symbol) ==
    \/ in_symbol.address = 0
    \/ is_common(in_symbol.flags)
    \/ kind = "Executable"

\* ObjSymbols::add_direct
add_direct(self, in_symbol) ==
    LET symbol_idx == Len(self.symbols)
        pushed == [self EXCEPT !.symbols_by_address =
                       nested_push(@, AsU32(in_symbol.address), symbol_idx)]
        sectioned ==
            IF in_symbol.section # None
            THEN [pushed EXCEPT !.symbols_by_section =
                     push_section(@, in_symbol.section[1], AsU32(in_symbol.address),
                                  symbol_idx)]
            ELSE pushed
    IN  IF in_symbol.section = None /\ ~abs_symbol_allowed(self.obj_kind, in_symbol)
        THEN Outcome(pushed, Err("ABS symbol in relocatable object"))
        ELSE Outcome(
                [sectioned EXCEPT
                    !.symbols_by_name =
                        IF in_symbol.name # <<>>
                        THEN nested_push(@, in_symbol.name, symbol_idx)
                        ELSE @,
                    !.symbols = Append(@, in_symbol)],
                Ok(Some(symbol_idx)))

\* The merge search treating an unsectioned candidate of a table that is not
\* Executable as unmatched instead of bailing out.
add_find_AppendsAbs(self, in_symbol) ==
    IF in_symbol.section # None
    THEN Ok(find_first(SelectSeq(
            at_section_address(self, in_symbol.section[1], AsU32(in_symbol.address)),
            LAMBDA i : \/ at(self, i).kind = in_symbol.kind
                       \/ /\ at(self, i).kind = "Unknown"
                          /\ is_auto_symbol(at(self, i).name))))
    ELSE IF self.obj_kind = "Executable"
    THEN Ok(find_first(SelectSeq(iter_abs(self),
                                 LAMBDA i : at(self, i).name = in_symbol.name)))
    ELSE Ok(None)

\* The merge search of ObjSymbols::add: Ok(Some(idx)), Ok(None), or the bail!
add_find(self, in_symbol) ==
    IF in_symbol.section # None
    THEN Ok(find_first(SelectSeq(
            at_section_address(self, in_symbol.section[1], AsU32(in_symbol.address)),
            LAMBDA i : \/ at(self, i).kind = in_symbol.kind
                       \/ /\ at(self, i).kind = "Unknown"
                          /\ is_auto_symbol(at(self, i).name))))
    ELSE IF self.obj_kind = "Executable"
    THEN Ok(find_first(SelectSeq(iter_abs(self),
                                 LAMBDA i : at(self, i).name = in_symbol.name)))
    ELSE Err("ABS symbol in relocatable object")

\* The size resolution of ObjSymbols::add
add_size(existing, in_symbol, replace_flag) ==
    IF existing.size_known /\ in_symbol.size_known /\ existing.size # in_symbol.size
    THEN (IF replace_flag THEN in_symbol.size ELSE existing.size)
    ELSE IF in_symbol.size_known THEN in_symbol.size
    ELSE existing.size

\* The `!replace` branch taking the candidate's known size over a known one.
add_keep_TakeKnownSize(self, symbol_idx, existing, in_symbol) ==
    IF in_symbol.size_known
    THEN LET r == replace(self, symbol_idx,
                          [existing EXCEPT !.size = in_symbol.size, !.size_known = TRUE])
         IN  IF r.result.status = "Ok" THEN Outcome(r.self, Ok(Some(symbol_idx))) ELSE r
    ELSE Outcome(self, Ok(Some(symbol_idx)))

\* The `!replace` branch storing the candidate's name along with the size.
add_keep_TakesName(self, symbol_idx, existing, in_symbol) ==
    IF in_symbol.size_known /\ ~existing.size_known
    THEN LET r == replace(self, symbol_idx,
                          [existing EXCEPT !.size = in_symbol.size, !.size_known = TRUE,
                                           !.name = in_symbol.name])
         IN  IF r.result.status = "Ok" THEN Outcome(r.self, Ok(Some(symbol_idx))) ELSE r
    ELSE Outcome(self, Ok(Some(symbol_idx)))

\* The `!replace` branch of ObjSymbols::add: only a size upgrade
add_keep(self, symbol_idx, existing, in_symbol) ==
    IF in_symbol.size_known /\ ~existing.size_known
    THEN LET r == replace(self, symbol_idx,
                          [existing EXCEPT !.size = in_symbol.size, !.size_known = TRUE])
         IN  IF r.result.status = "Ok" THEN Outcome(r.self, Ok(Some(symbol_idx))) ELSE r
    ELSE Outcome(self, Ok(Some(symbol_idx)))

\* The merged record with size_known also taken from the candidate's size_known.
add_merged_EitherKnown(existing, in_symbol, size) ==
    ObjSymbol(in_symbol.name, in_symbol.demangled_name, in_symbol.address,
              in_symbol.section, size,
              existing.size_known \/ in_symbol.size_known \/ in_symbol.size # 0,
              in_symbol.flags, in_symbol.kind,
              IF in_symbol.align # None THEN in_symbol.align ELSE existing.align,
              IF in_symbol.data_kind = "Unknown" THEN existing.data_kind
              ELSE in_symbol.data_kind)

\* The merged record `new_symbol` of ObjSymbols::add
add_merged(existing, in_symbol, size) ==
    ObjSymbol(in_symbol.name, in_symbol.demangled_name, in_symbol.address,
              in_symbol.section, size,
              existing.size_known \/ in_symbol.size # 0,
              in_symbol.flags, in_symbol.kind,
              IF in_symbol.align # None THEN in_symbol.align ELSE existing.align,
              IF in_symbol.data_kind = "Unknown" THEN existing.data_kind
              ELSE in_symbol.data_kind)

\* The appended record keeping the candidate's size_known as given.
add_fresh_CopySizeKnown(in_symbol) ==
    ObjSymbol(in_symbol.name, in_symbol.demangled_name, in_symbol.address,
              in_symbol.section, in_symbol.size, in_symbol.size_known,
              in_symbol.flags, in_symbol.kind, in_symbol.align, in_symbol.data_kind)

\* The record ObjSymbols::add hands to add_direct when no match is found
add_fresh(in_symbol) ==
    ObjSymbol(in_symbol.name, in_symbol.demangled_name, in_symbol.address,
              in_symbol.section, in_symbol.size, in_symbol.size # 0,
              in_symbol.flags, in_symbol.kind, in_symbol.align, in_symbol.data_kind)

\* The `replace` branch appending the candidate when replace refuses the merged record.
add_replace_AppendsOnError(self, symbol_idx, existing, in_symbol, size) ==
    LET new_symbol == add_merged(existing, in_symbol, size)
    IN  IF existing # new_symbol
        THEN LET r == replace(self, symbol_idx, new_symbol)
             IN  IF r.result.status = "Ok" THEN Outcome(r.self, Ok(Some(symbol_idx)))
                 ELSE add_direct(self, add_fresh(in_symbol))
        ELSE Outcome(self, Ok(Some(symbol_idx)))

\* The `replace` branch of ObjSymbols::add
add_replace(self, symbol_idx, existing, in_symbol, size) ==
    LET new_symbol == add_merged(existing, in_symbol, size)
    IN  IF existing # new_symbol
        THEN LET r == replace(self, symbol_idx, new_symbol)
             IN  IF r.result.status = "Ok" THEN Outcome(r.self, Ok(Some(symbol_idx))) ELSE r
        ELSE Outcome(self, Ok(Some(symbol_idx)))

\* ObjSymbols::add
add(self, in_symbol, replace_flag) ==
    LET opt == add_find(self, in_symbol)
    IN  IF opt.status # "Ok" THEN Outcome(self, opt)
        ELSE IF opt.val # None
        THEN LET symbol_idx == opt.val[1]
                 existing == at(self, symbol_idx)
                 size == add_size(existing, in_symbol, replace_flag)
             IN  IF ~replace_flag
                 THEN add_keep(self, symbol_idx, existing, in_symbol)
                 ELSE add_replace(self, symbol_idx, existing, in_symbol, size)
        ELSE add_direct(self, add_fresh(in_symbol))

----------------------------------------------------------------------------
(* Relocation eligibility, ranking and target resolution *)

Addr16Kinds == {"PpcAddr16Ha", "PpcAddr16Hi", "PpcAddr16Lo"}

\* referenced_by without the test of the RelocationIgnore flag.
referenced_by_KeepsIgnored(symbol, reloc_kind) ==
    IF is_linker_generated_label(symbol.name) THEN reloc_kind \in Addr16Kinds
    ELSE CASE symbol.kind = "Unknown"  -> TRUE
           [] symbol.kind = "Function" -> reloc_kind # "PpcEmbSda21"
           [] symbol.kind = "Object"   -> reloc_kind \notin {"PpcRel14", "PpcRel24"}
           [] symbol.kind = "Section"  -> reloc_kind \in Addr16Kinds

\* ObjSymbol::referenced_by
referenced_by(symbol, reloc_kind) ==
    IF is_relocation_ignore(symbol.flags) THEN FALSE
    ELSE IF is_linker_generated_label(symbol.name) THEN reloc_kind \in Addr16Kinds
    ELSE CASE symbol.kind = "Unknown"  -> TRUE
           [] symbol.kind = "Function" -> reloc_kind # "PpcEmbSda21"
           [] symbol.kind = "Object"   -> reloc_kind \notin {"PpcRel14", "PpcRel24"}
           [] symbol.kind = "Section"  -> reloc_kind \in Addr16Kinds

\* The rank computed in the sort key of best_match_for_reloc
reloc_rank(symbol, reloc_kind) ==
    LET base ==
            CASE symbol.kind \in {"Function", "Object"} ->
                    (IF reloc_kind \in {"PpcAddr16Hi", "PpcAddr16Ha", "PpcAddr16Lo"}
                     THEN 1 ELSE 2)
              [] symbol.kind = "Unknown" ->
                    (IF /\ reloc_kind \in {"PpcAddr16Hi", "PpcAddr16Ha", "PpcAddr16Lo"}
                        /\ ~starts_with(symbol.name, Text_dotdot)
                     THEN 3 ELSE 1)
              [] symbol.kind = "Section" -> -1
    IN  IF symbol.size > 0 THEN base + 1 ELSE base

\* The sort key: the negated rank
reloc_sort_key(entry, reloc_kind) == 0 - reloc_rank(entry[2], reloc_kind)

\* Insertion before the entries of equal key: the sort is no longer stable.
RECURSIVE sort_insert_Unstable(_, _, _)
sort_insert_Unstable(sorted, x, reloc_kind) ==
    IF sorted = <<>> THEN <<x>>
    ELSE IF reloc_sort_key(Head(sorted), reloc_kind) < reloc_sort_key(x, reloc_kind)
    THEN <<Head(sorted)>> \o sort_insert_Unstable(Tail(sorted), x, reloc_kind)
    ELSE <<x>> \o sorted

\* Insertion of entry x into a list sorted by key, after every entry whose key is
\* not greater (what keeps slice::sort_by_key stable).
RECURSIVE sort_insert(_, _, _)
sort_insert(sorted, x, reloc_kind) ==
    IF sorted = <<>> THEN <<x>>
    ELSE IF reloc_sort_key(Head(sorted), reloc_kind) <= reloc_sort_key(x, reloc_kind)
    THEN <<Head(sorted)>> \o sort_insert(Tail(sorted), x, reloc_kind)
    ELSE <<x>> \o sorted

\* symbols.sort_by_key(...): a stable ascending sort of <<index, symbol>> entries
RECURSIVE sort_by_key(_, _)
sort_by_key(entries, reloc_kind) ==
    IF entries = <<>> THEN <<>>
    ELSE sort_insert(sort_by_key(SubSeq(entries, 1, Len(entries) - 1), reloc_kind),
                     entries[Len(entries)], reloc_kind)

\* best_match_for_reloc, on a list of <<index, symbol>> entries
best_match_for_reloc(entries, reloc_kind) ==
    IF Len(entries) = 1 THEN Some(entries[1])
    ELSE LET sorted == sort_by_key(entries, reloc_kind)
         IN  IF sorted = <<>> THEN None ELSE Some(Head(sorted))

\* indexes_for_range(..=address): the keys of the global address index in the range
indexes_for_range(self, address) ==
    {k \in DOMAIN self.symbols_by_address : k <= address}

\* The candidates for_relocation collects at one address of the global index
reloc_candidates(self, symbol_idxs, target_addr, reloc_kind) ==
    SelectSeq([i \in 1..Len(symbol_idxs) |-> <<symbol_idxs[i], at(self, symbol_idxs[i])>>],
              LAMBDA e : /\ (e[2].section = None \/ e[2].section = Some(target_addr.section))
                         /\ referenced_by(e[2], reloc_kind))

\* The loop of for_relocation over the keys still to visit, in descending order
RECURSIVE for_relocation_scan(_, _, _, _)
for_relocation_scan(self, keys, target_addr, reloc_kind) ==
    IF keys = {} THEN Ok(None)
    ELSE LET addr == SetMax(keys)
             symbol_idxs == self.symbols_by_address[addr]
         IN  IF \E i \in 1..Len(symbol_idxs) : symbol_idxs[i] >= Len(self.symbols)
             THEN Panic
             ELSE LET best == best_match_for_reloc(
                                 reloc_candidates(self, symbol_idxs, target_addr, reloc_kind),
                                 reloc_kind)
                  IN  IF best = None
                      THEN for_relocation_scan(self, keys \ {addr}, target_addr, reloc_kind)
                      ELSE LET symbol_idx == best[1][1]
                               symbol == best[1][2]
                           IN  IF symbol.address = target_addr.address
                               THEN Ok(Some(symbol_idx))
                               ELSE IF symbol.size > 0
                               THEN (IF symbol.address + symbol.size > target_addr.address
                                     THEN Ok(Some(symbol_idx))
                                     ELSE Ok(None))
                               ELSE for_relocation_scan(self, keys \ {addr}, target_addr,
                                                        reloc_kind)

\* The loop of for_relocation with the `break` after the size test instead of in it:
\* the scan ends at the first candidate-bearing address whatever the size.
RECURSIVE scan_BreaksAtUnsized(_, _, _, _)
scan_BreaksAtUnsized(self, keys, target_addr, reloc_kind) ==
    IF keys = {} THEN Ok(None)
    ELSE LET addr == SetMax(keys)
             symbol_idxs == self.symbols_by_address[addr]
         IN  IF \E i \in 1..Len(symbol_idxs) : symbol_idxs[i] >= Len(self.symbols)
             THEN Panic
             ELSE LET best == best_match_for_reloc(
                                 reloc_candidates(self, symbol_idxs, target_addr, reloc_kind),
                                 reloc_kind)
                  IN  IF best = None
                      THEN scan_BreaksAtUnsized(self, keys \ {addr}, target_addr, reloc_kind)
                      ELSE IF \/ best[1][2].address = target_addr.address
                              \/ /\ best[1][2].size > 0
                                 /\ best[1][2].address + best[1][2].size > target_addr.address
                      THEN Ok(Some(best[1][1]))
                      ELSE Ok(None)

\* for_relocation with that loop.
for_relocation_BreaksAtUnsized(self, target_addr, reloc_kind) ==
    scan_BreaksAtUnsized(self, indexes_for_range(self, target_addr.address), target_addr,
                         reloc_kind)

\* struct SectionAddress
SectionAddress(section, address) == [section |-> section, address |-> address]

\* ObjSymbols::for_relocation
for_relocation(self, target_addr, reloc_kind) ==
    for_relocation_scan(self, indexes_for_range(self, target_addr.address), target_addr,
                        reloc_kind)

----------------------------------------------------------------------------
(* Bounds and input universes *)

\* The arena holds at most MaxSymbols symbols.
MaxSymbols == 2

\* The global address index holds at most MaxIndexEntries entries.
MaxIndexEntries == 3

\* The list handed to ObjSymbols::new has at most MaxInitLen symbols.
MaxInitLen == 1

\* Relocation targets range over addresses 0..MaxTarget.
MaxTarget == 2

\* best_match_for_reloc is applied to lists of at most MaxCandidates candidates.
MaxCandidates == 3

\* The list handed to ObjSymbols::new for the lookup checks has at most MaxNewLen symbols.
MaxNewLen == 2

\* The table whose symbols' flags are rescoped holds at most MaxFlagSymbols symbols.
MaxFlagSymbols == 1

Text_empty == <<>>

Text_foo == <<"f", "o", "o">>

Text_lbl_1 == <<"l", "b", "l", "_", "1">>

Text_dotdot_a == <<".", ".", "a">>

\* A symbol with no demangled name, no alignment and data kind Unknown.
Sym(name, address, section, size, size_known, flags, kind) ==
    ObjSymbol(name, None, address, section, size, size_known, flags, kind, None, "Unknown")

\* Symbols for the insertion, merge and replace operations: unsectioned symbols at
\* addresses 0 and 1, unnamed and named, one of them Common; symbols at (section 0,
\* address 0) of kinds Unknown and Function, unnamed, named and auto-named; sized
\* variants of one Function; one symbol with every optional attribute present.
MergeInputs ==
    {Sym(n, a, None, 0, FALSE, {}, "Unknown") : n \in {Text_empty, Text_foo}, a \in {0, 1}}
    \cup {Sym(Text_foo, 1, None, 0, FALSE, {"Common"}, "Unknown")}
    \cup {Sym(Text_lbl_1, 0, Some(0), 0, FALSE, {}, "Unknown"),
          Sym(Text_foo, 0, Some(0), 0, FALSE, {}, "Unknown"),
          Sym(Text_foo, 0, Some(0), 0, FALSE, {}, "Function"),
          Sym(Text_empty, 0, Some(0), 0, FALSE, {}, "Function")}
    \cup {Sym(Text_foo, 0, Some(0), 0, TRUE, {}, "Function"),
          Sym(Text_foo, 0, Some(0), 1, TRUE, {}, "Function"),
          Sym(Text_foo, 0, Some(0), 2, TRUE, {}, "Function"),
          Sym(Text_foo, 0, Some(0), 1, FALSE, {}, "Function")}
    \cup {ObjSymbol(Text_foo, Some(Text_foo), 0, Some(0), 0, FALSE, {"Global"},
                    "Function", Some(4), "Byte")}

\* Symbols for relocation resolution: Functions of section 0 at addresses 0 and 1
\* with sizes 0, 1 and 3; symbols of the other kinds and naming conventions at
\* (section 0, address 1); a symbol of another section; unsectioned symbols.
RelocInputs ==
    {Sym(Text_foo, 0, Some(0), 3, TRUE, {}, "Function"),
     Sym(Text_foo, 1, Some(0), 0, FALSE, {}, "Function"),
     Sym(Text_foo, 1, Some(0), 1, TRUE, {}, "Function"),
     Sym(Text_foo, 1, Some(0), 3, TRUE, {"RelocationIgnore"}, "Function"),
     Sym(Text_ctors, 1, Some(0), 3, TRUE, {}, "Unknown"),
     Sym(Text_dotdot_a, 1, Some(0), 0, FALSE, {}, "Unknown"),
     Sym(Text_foo, 1, Some(0), 0, FALSE, {}, "Section"),
     Sym(Text_foo, 1, Some(0), 1, TRUE, {}, "Object"),
     Sym(Text_foo, 1, Some(1), 3, TRUE, {}, "Function"),
     Sym(Text_foo, 0, None, 3, TRUE, {}, "Unknown"),
     Sym(Text_foo, 2, None, 0, FALSE, {}, "Unknown")}

\* Candidates for ranking, all at (section 0, address 1): every kind, with a plain
\* label name and with a name starting with "..", with size 0 and with size 3.
BestInputs ==
    {Sym(n, 1, Some(0), z, z # 0, {}, k) : n \in {Text_lbl_1, Text_dotdot_a},
                                          z \in {0, 3}, k \in ObjSymbolKind}

\* Symbols for construction and lookup: unnamed and named, at addresses 0 and 1,
\* with no section, in section 0 and in section 1.
NewInputs ==
    {Sym(n, a, s, 0, FALSE, {}, "Unknown") :
        n \in {Text_empty, Text_foo}, a \in {0, 1}, s \in {None, Some(0), Some(1)}}

\* Symbols for the lookup by kind: at (section 0, address 0) symbols of kinds Unknown
\* and Function, plainly named and auto-named, and an Object; a Function at another
\* address and one in another section.
KindInputs ==
    {Sym(n, 0, Some(0), 0, FALSE, {}, k) :
        n \in {Text_foo, Text_lbl_1}, k \in {"Unknown", "Function"}}
    \cup {Sym(Text_foo, 0, Some(0), 0, FALSE, {}, "Object"),
          Sym(Text_foo, 1, Some(0), 0, FALSE, {}, "Function"),
          Sym(Text_foo, 0, Some(1), 0, FALSE, {}, "Function")}

\* One symbol for every flag set.
FlagInputs == {Sym(Text_foo, 0, Some(0), 0, FALSE, f, "Function") : f \in SUBSET ObjSymbolFlags}

Targets == {SectionAddress(s, a) : s \in {0, 1}, a \in 0..MaxTarget}

\* The lists of at most n symbols of U.
ListsUpTo(U, n) == UNION {[1..k -> U] : k \in 0..n}

----------------------------------------------------------------------------
(* The table as a state machine *)

\* The table value held by the variables.
Self == ObjSymbols(obj_kind, symbols, symbols_by_address, symbols_by_name,
                   symbols_by_section)

\* The number of entries of the global address index.
IndexEntries(self) ==
    Len(flatten_ascending(self.symbols_by_address, DOMAIN self.symbols_by_address))

WithinBounds(self) ==
    /\ Len(self.symbols) <= MaxSymbols
    /\ IndexEntries(self) <= MaxIndexEntries

\* No for_relocation result is held.
NoAnswer == [held |-> FALSE, result |-> Ok(None)]

\* The result of a for_relocation call, held by the caller.
Answer(result) == [held |-> TRUE, result |-> result]

\* A mutating call leaves the table `self` in the variables.
Commit(self) ==
    /\ ~answer.held
    /\ WithinBounds(self)
    /\ obj_kind' = self.obj_kind
    /\ symbols' = self.symbols
    /\ symbols_by_address' = self.symbols_by_address
    /\ symbols_by_name' = self.symbols_by_name
    /\ symbols_by_section' = self.symbols_by_section
    /\ answer' = NoAnswer

\* After ObjSymbols::new(kind, list) on a list of symbols of U.
InitOn(U) ==
    \E kind \in ObjKind, list \in ListsUpTo(U, MaxInitLen) :
        LET self == new(kind, list)
        IN  /\ obj_kind = self.obj_kind
            /\ symbols = self.symbols
            /\ symbols_by_address = self.symbols_by_address
            /\ symbols_by_name = self.symbols_by_name
            /\ symbols_by_section = self.symbols_by_section
            /\ answer = NoAnswer

Add(U) ==
    \E in_symbol \in U, replace_flag \in BOOLEAN :
        LET r == add(Self, in_symbol, replace_flag)
        IN  Commit(r.self)

AddDirect(U) ==
    \E in_symbol \in U :
        LET r == add_direct(Self, in_symbol)
        IN  Commit(r.self)

Replace(U) ==
    \E index \in 0..(Len(symbols) - 1), symbol \in U :
        LET r == replace(Self, index, symbol)
        IN  Commit(r.self)

ForRelocation ==
    \E target_addr \in Targets, reloc_kind \in ObjRelocKind :
        /\ ~answer.held
        /\ answer' = Answer(for_relocation(Self, target_addr, reloc_kind))
        /\ UNCHANGED <<obj_kind, symbols, symbols_by_address, symbols_by_name,
                       symbols_by_section>>

\* The caller drops the result it holds.
Release ==
    /\ answer.held
    /\ answer' = NoAnswer
    /\ UNCHANGED <<obj_kind, symbols, symbols_by_address, symbols_by_name,
                   symbols_by_section>>

Init == InitOn(MergeInputs)

Next == Add(MergeInputs) \/ AddDirect(MergeInputs) \/ Replace(MergeInputs)

Spec == Init /\ [][Next]_vars

InitReloc == InitOn(RelocInputs)

NextReloc ==
    \/ Add(RelocInputs) \/ AddDirect(RelocInputs) \/ Replace(RelocInputs)
    \/ ForRelocation \/ Release

SpecReloc == InitReloc /\ [][NextReloc]_vars

\* The candidate list best_match_for_reloc is given: the whole arena, in order.
Entries == [p \in 1..Len(symbols) |-> <<p - 1, symbols[p]>>]

\* After ObjSymbols::new on a list of candidates (best_match_for_reloc reads no
\* obj_kind: one kind of table is enough).
InitBest ==
    \E list \in ListsUpTo(BestInputs, MaxCandidates) :
        LET self == new("Executable", list)
        IN  /\ obj_kind = self.obj_kind
            /\ symbols = self.symbols
            /\ symbols_by_address = self.symbols_by_address
            /\ symbols_by_name = self.symbols_by_name
            /\ symbols_by_section = self.symbols_by_section
            /\ answer = NoAnswer

\* best_match_for_reloc on the candidate list; the caller holds the index returned.
BestMatch ==
    \E reloc_kind \in ObjRelocKind :
        LET best == best_match_for_reloc(Entries, reloc_kind)
        IN  /\ ~answer.held
            /\ answer' = Answer(Ok(IF best = None THEN None ELSE Some(best[1][1])))
            /\ UNCHANGED <<obj_kind, symbols, symbols_by_address, symbols_by_name,
                           symbols_by_section>>

NextBest == BestMatch \/ Release

SpecBest == InitBest /\ [][NextBest]_vars

\* After ObjSymbols::new on a list of symbols of NewInputs.
InitNew ==
    \E kind \in ObjKind, list \in ListsUpTo(NewInputs, MaxNewLen) :
        LET self == new(kind, list)
        IN  /\ obj_kind = self.obj_kind
            /\ symbols = self.symbols
            /\ symbols_by_address = self.symbols_by_address
            /\ symbols_by_name = self.symbols_by_name
            /\ symbols_by_section = self.symbols_by_section
            /\ answer = NoAnswer

\* at_section_address on a position; the caller holds the indices returned.
AtSectionAddress ==
    \E section_idx \in {0, 1}, addr \in {0, 1} :
        /\ ~answer.held
        /\ answer' = Answer(Ok(at_section_address(Self, section_idx, addr)))
        /\ UNCHANGED <<obj_kind, symbols, symbols_by_address, symbols_by_name,
                       symbols_by_section>>

\* for_name on a name; the caller holds the indices returned.
ForName ==
    \E name \in {Text_empty, Text_foo} :
        /\ ~answer.held
        /\ answer' = Answer(Ok(for_name(Self, name)))
        /\ UNCHANGED <<obj_kind, symbols, symbols_by_address, symbols_by_name,
                       symbols_by_section>>

NextNew == AtSectionAddress \/ ForName \/ Release

SpecNew == InitNew /\ [][NextNew]_vars

InitKind == InitOn(KindInputs)

\* kind_at_section_address on a position and a kind; the caller holds the result.
KindAtSectionAddress ==
    \E section_idx \in {0, 1}, addr \in {0, 1}, kind \in ObjSymbolKind :
        /\ ~answer.held
        /\ answer' = Answer(kind_at_section_address(Self, section_idx, addr, kind))
        /\ UNCHANGED <<obj_kind, symbols, symbols_by_address, symbols_by_name,
                       symbols_by_section>>

NextKind ==
    \/ Add(KindInputs) \/ AddDirect(KindInputs) \/ Replace(KindInputs)
    \/ KindAtSectionAddress \/ Release

SpecKind == InitKind /\ [][NextKind]_vars

\* ObjSymbols::flags: the flag set of the symbol at idx
flags(self, idx) == at(self, idx).flags

\* After ObjSymbols::new on a list of symbols of FlagInputs (neither scope nor
\* set_scope reads obj_kind: one kind of table is enough).
InitFlags ==
    \E list \in ListsUpTo(FlagInputs, MaxFlagSymbols) :
        LET self == new("Executable", list)
        IN  /\ obj_kind = self.obj_kind
            /\ symbols = self.symbols
            /\ symbols_by_address = self.symbols_by_address
            /\ symbols_by_name = self.symbols_by_name
            /\ symbols_by_section = self.symbols_by_section
            /\ answer = NoAnswer

\* self.flags(idx).set_scope(s)
SetScope ==
    \E idx \in 0..(Len(symbols) - 1), s \in ObjSymbolScope :
        /\ ~answer.held
        /\ symbols' = [symbols EXCEPT ![idx + 1].flags = set_scope(@, s)]
        /\ UNCHANGED <<obj_kind, symbols_by_address, symbols_by_name, symbols_by_section,
                       answer>>

\* self.flags(idx).scope(); the caller holds the scope returned.
GetScope ==
    \E idx \in 0..(Len(symbols) - 1) :
        /\ ~answer.held
        /\ answer' = Answer(Ok(Some(scope(flags(Self, idx)))))
        /\ UNCHANGED <<obj_kind, symbols, symbols_by_address, symbols_by_name,
                       symbols_by_section>>

NextFlags == SetScope \/ GetScope \/ Release

SpecFlags == InitFlags /\ [][NextFlags]_vars

\* After ObjSymbols::new on the empty list.
InitAdds ==
    \E kind \in ObjKind :
        LET self == new(kind, <<>>)
        IN  /\ obj_kind = self.obj_kind
            /\ symbols = self.symbols
            /\ symbols_by_address = self.symbols_by_address
            /\ symbols_by_name = self.symbols_by_name
            /\ symbols_by_section = self.symbols_by_section
            /\ answer = NoAnswer

\* A table filled by add calls only.
NextAdds == Add(MergeInputs)

SpecAdds == InitAdds /\ [][NextAdds]_vars

----------------------------------------------------------------------------
(* Index consistency *)

\* The number of times index i occurs in the sequence of indices s.
Occurrences(s, i) == Cardinality({p \in 1..Len(s) : s[p] = i})

\* The valid arena indices.
Indices == 0..(Len(symbols) - 1)

\* Every sectioned symbol is listed exactly once under its address in its section's map.
SectionedListedOnce ==
    \A i \in Indices :
        at(Self, i).section # None =>
            Occurrences(at_section_address(Self, at(Self, i).section[1],
                                           AsU32(at(Self, i).address)), i) = 1

\* Every named symbol is listed exactly once under its name in the name map.
NamedListedOnce ==
    \A i \in Indices :
        at(Self, i).name # <<>> =>
            /\ at(Self, i).name \in DOMAIN symbols_by_name
            /\ Occurrences(symbols_by_name[at(Self, i).name], i) = 1

\* Every entry of the global address index is an arena index filed under its address.
AddressEntriesCurrent ==
    \A k \in DOMAIN symbols_by_address :
        \A p \in 1..Len(symbols_by_address[k]) :
            /\ symbols_by_address[k][p] \in Indices
            /\ AsU32(at(Self, symbols_by_address[k][p]).address) = k

\* Every entry of a section's map is an arena index filed under its section and address.
SectionEntriesCurrent ==
    \A s \in 1..Len(symbols_by_section) :
        \A k \in DOMAIN symbols_by_section[s] :
            \A p \in 1..Len(symbols_by_section[s][k]) :
                /\ symbols_by_section[s][k][p] \in Indices
                /\ at(Self, symbols_by_section[s][k][p]).section = Some(s - 1)
                /\ AsU32(at(Self, symbols_by_section[s][k][p]).address) = k

\* Every entry of the name index is an arena index filed under its current name.
NameEntriesCurrent ==
    \A n \in DOMAIN symbols_by_name :
        \A p \in 1..Len(symbols_by_name[n]) :
            /\ symbols_by_name[n][p] \in Indices
            /\ at(Self, symbols_by_name[n][p]).name = n

\* C1: in every state reached by new followed by add, add_direct and replace calls,
\* failing ones included, the three indices agree with the arena: each sectioned
\* symbol is listed exactly once under its address in its section's map, each named
\* symbol exactly once under its name, and every index entry is an existing arena
\* index whose current address, section or name is the key it is filed under.
C1_IndicesAgreeWithArena ==
    /\ SectionedListedOnce
    /\ NamedListedOnce
    /\ AddressEntriesCurrent
    /\ SectionEntriesCurrent
    /\ NameEntriesCurrent

\* add_direct rejects in_symbol with the absolute-symbol invariant error.
RejectedAbsolute(in_symbol) ==
    /\ in_symbol.section = None
    /\ in_symbol.address # 0
    /\ ~is_common(in_symbol.flags)
    /\ obj_kind = "Relocatable"

\* C2: add_direct of a symbol with no section, a nonzero address and no Common flag
\* into a Relocatable table fails with the absolute-symbol invariant error and
\* leaves the arena and all three indices as they were before the call.
C2_RejectedAddDirectLeavesTable ==
    \A in_symbol \in MergeInputs :
        RejectedAbsolute(in_symbol) =>
            /\ add_direct(Self, in_symbol).result = Err("ABS symbol in relocatable object")
            /\ add_direct(Self, in_symbol).self = Self

\* C3: replace(index, record) fails whenever the record's address or section differs
\* from the stored entry's, and then the arena and all three indices (the name index
\* too, also when the record's name differs) are as they were before the call.
C3_RejectedReplaceLeavesTable ==
    \A index \in Indices, record \in MergeInputs :
        (\/ record.address # at(Self, index).address
         \/ record.section # at(Self, index).section) =>
            /\ replace(Self, index, record).result.status = "Err"
            /\ replace(Self, index, record).self = Self

\* A replace that is rejected for its section alone, with a name that differs too.
C3_Witness ==
    \E index \in Indices, record \in MergeInputs :
        /\ record.address = at(Self, index).address
        /\ record.section # at(Self, index).section
        /\ record.name # at(Self, index).name
        /\ record.name # <<>>
        /\ at(Self, index).name # <<>>
        /\ replace(Self, index, record).result =
               Err("Can't modify section with replace_symbol")

\* C4: merge-insert is idempotent: on every reachable table and for every candidate,
\* a second add(candidate, replace = true) with the same candidate leaves the arena
\* and the indices as the first call left them and returns what the first returned.
C4_AddReplaceIdempotent ==
    \A in_symbol \in MergeInputs :
        LET first == add(Self, in_symbol, TRUE)
            second == add(first.self, in_symbol, TRUE)
        IN  /\ second.self = first.self
            /\ second.result = first.result

\* A first add(candidate, replace = true) that merges into an existing symbol and
\* changes it, and one that appends a new symbol, each followed by a second call.
C4_Witness ==
    /\ \E in_symbol \in MergeInputs :
        LET first == add(Self, in_symbol, TRUE)
        IN  /\ first.result.status = "Ok"
            /\ Len(first.self.symbols) = Len(symbols)
            /\ first.self # Self
            /\ add(first.self, in_symbol, TRUE) = first
    /\ \E in_symbol \in MergeInputs :
        LET first == add(Self, in_symbol, TRUE)
        IN  /\ first.result = Ok(Some(Len(symbols)))
            /\ in_symbol.size # 0
            /\ ~in_symbol.size_known
            /\ add(first.self, in_symbol, TRUE) = first

\* C5: size monotonicity: a symbol with size_known and size S > 0 keeps its size and
\* size_known through any add(candidate, replace = false), whether the candidate's
\* size is unknown or known and different from S.
C5_KnownSizeKept ==
    \A in_symbol \in MergeInputs :
        \A i \in Indices :
            (at(Self, i).size_known /\ at(Self, i).size > 0) =>
                LET after == add(Self, in_symbol, FALSE).self
                IN  /\ at(after, i).size = at(Self, i).size
                    /\ at(after, i).size_known

\* add(candidate, replace = false) merges into a symbol of known size S > 0, once
\* with a candidate of unknown size and once with one of a known size other than S.
C5_Witness ==
    \E i \in Indices :
        /\ at(Self, i).size_known
        /\ at(Self, i).size > 0
        /\ \E in_symbol \in MergeInputs :
            /\ ~in_symbol.size_known
            /\ add(Self, in_symbol, FALSE).result = Ok(Some(i))
        /\ \E in_symbol \in MergeInputs :
            /\ in_symbol.size_known
            /\ in_symbol.size # at(Self, i).size
            /\ add(Self, in_symbol, FALSE).result = Ok(Some(i))

----------------------------------------------------------------------------
(* Relocation target resolution *)

\* The entries of the global address index under key k that are arena indices.
ArenaEntriesAt(k) ==
    SelectSeq(symbols_by_address[k], LAMBDA i : i \in Indices)

\* The eligible candidates filed under key k of the global address index: symbols of
\* the target's section or of none that the relocation kind may reference.
CandidatesAt(k, target_addr, reloc_kind) ==
    reloc_candidates(Self, ArenaEntriesAt(k), target_addr, reloc_kind)

\* The candidate-bearing addresses at or below the target.
BearingKeys(target_addr, reloc_kind) ==
    {k \in indexes_for_range(Self, target_addr.address) :
        CandidatesAt(k, target_addr, reloc_kind) # <<>>}

\* The best match <<index, symbol>> among the candidates at candidate-bearing address k.
BestAt(k, target_addr, reloc_kind) ==
    best_match_for_reloc(CandidatesAt(k, target_addr, reloc_kind), reloc_kind)[1]

\* The span of symbol covers the address.
Covers(symbol, address) == symbol.size > 0 /\ symbol.address + symbol.size > address

\* The global address index holds arena indices only.
NoDanglingIndex ==
    \A k \in DOMAIN symbols_by_address :
        \A p \in 1..Len(symbols_by_address[k]) : symbols_by_address[k][p] \in Indices

\* C6: on every reachable table, for every target and relocation kind, for_relocation
\* never returns a symbol flagged RelocationIgnore, and never returns a symbol named
\* as a linker-generated label unless the kind is PpcAddr16Ha, PpcAddr16Hi or PpcAddr16Lo.
C6_NeverReturnsIneligible ==
    \A target_addr \in Targets, reloc_kind \in ObjRelocKind :
        LET r == for_relocation(Self, target_addr, reloc_kind)
        IN  r.val # None =>
                /\ ~is_relocation_ignore(at(Self, r.val[1]).flags)
                /\ is_linker_generated_label(at(Self, r.val[1]).name) =>
                       reloc_kind \in {"PpcAddr16Ha", "PpcAddr16Hi", "PpcAddr16Lo"}

\* A RelocationIgnore symbol and a linker-generated label both cover the target:
\* a branch relocation finds no target, a high-adjusted one finds the label.
C6_Witness ==
    \E target_addr \in Targets :
        /\ \E i \in Indices :
            /\ is_relocation_ignore(at(Self, i).flags)
            /\ at(Self, i).section = Some(target_addr.section)
            /\ Covers(at(Self, i), target_addr.address)
        /\ \E i \in Indices :
            /\ is_linker_generated_label(at(Self, i).name)
            /\ at(Self, i).section = Some(target_addr.section)
            /\ Covers(at(Self, i), target_addr.address)
            /\ for_relocation(Self, target_addr, "PpcAddr16Ha") = Ok(Some(i))
        /\ for_relocation(Self, target_addr, "PpcRel24") = Ok(None)

\* C7: for_relocation returns the covering symbol: when the highest address at or
\* below the target that holds an eligible candidate has best match S, and S is at
\* the target or S.size > 0 and S.address + S.size > target, the result is S.
C7_ReturnsCoveringSymbol ==
    \A target_addr \in Targets, reloc_kind \in ObjRelocKind :
        LET keys == BearingKeys(target_addr, reloc_kind)
        IN  keys # {} =>
                LET best == BestAt(SetMax(keys), target_addr, reloc_kind)
                IN  (\/ best[2].address = target_addr.address
                     \/ Covers(best[2], target_addr.address)) =>
                        for_relocation(Self, target_addr, reloc_kind) = Ok(Some(best[1]))

\* C7 on the tables whose global address index holds arena indices only.
C7_OnSoundIndex == NoDanglingIndex => C7_ReturnsCoveringSymbol

\* The first candidate-bearing address that the scan meets lies strictly below the
\* target; `first` is its best match.
FirstBelow(target_addr, reloc_kind) ==
    /\ BearingKeys(target_addr, reloc_kind) # {}
    /\ SetMax(BearingKeys(target_addr, reloc_kind)) < target_addr.address

FirstBest(target_addr, reloc_kind) ==
    BestAt(SetMax(BearingKeys(target_addr, reloc_kind)), target_addr, reloc_kind)

\* C8 as claimed: when the best candidate at the first candidate-bearing address
\* strictly below the target has zero size, the scan stops there: for_relocation
\* returns no symbol, in particular none at a lower address.
C8_ZeroSizeStopsScan ==
    \A target_addr \in Targets, reloc_kind \in ObjRelocKind :
        (/\ FirstBelow(target_addr, reloc_kind)
         /\ FirstBest(target_addr, reloc_kind)[2].size = 0) =>
            for_relocation(Self, target_addr, reloc_kind).val = None

\* The candidate-bearing addresses below the target whose best match has a size.
SizedKeys(target_addr, reloc_kind) ==
    {k \in BearingKeys(target_addr, reloc_kind) :
        BestAt(k, target_addr, reloc_kind)[2].size > 0}

\* What a scan that passes over zero-size best matches yields: the best match of the
\* highest address whose best match has a size, if its span covers the target.
PastUnsized(target_addr, reloc_kind) ==
    LET keys == SizedKeys(target_addr, reloc_kind)
    IN  IF keys = {} THEN None
        ELSE LET best == BestAt(SetMax(keys), target_addr, reloc_kind)
             IN  IF Covers(best[2], target_addr.address) THEN Some(best[1]) ELSE None

\* C8 as amended: when the best candidate at the first candidate-bearing address
\* strictly below the target has zero size, the scan goes on to lower addresses: a
\* call that returns yields the best candidate of the first lower candidate-bearing
\* address whose best candidate has size > 0 if that span covers the target, and no
\* match otherwise.
C8_ZeroSizeContinuesScan ==
    \A target_addr \in Targets, reloc_kind \in ObjRelocKind :
        (/\ FirstBelow(target_addr, reloc_kind)
         /\ FirstBest(target_addr, reloc_kind)[2].size = 0) =>
            LET r == for_relocation(Self, target_addr, reloc_kind)
            IN  r.status = "Ok" => r.val = PastUnsized(target_addr, reloc_kind)

\* A zero-size best candidate just below the target, and for_relocation returning a
\* symbol of a lower address whose span covers the target.
C8_Witness ==
    \E target_addr \in Targets, reloc_kind \in ObjRelocKind :
        /\ FirstBelow(target_addr, reloc_kind)
        /\ FirstBest(target_addr, reloc_kind)[2].size = 0
        /\ LET r == for_relocation(Self, target_addr, reloc_kind)
           IN  /\ r.status = "Ok"
               /\ r.val # None
               /\ at(Self, r.val[1]).address < FirstBest(target_addr, reloc_kind)[2].address

\* C9: when the best candidate at the first candidate-bearing address strictly below
\* the target has size > 0 and its span ends at or before the target, the result is
\* "no target found", also when a symbol of a lower address covers the target.
C9_UncoveredStopsScan ==
    \A target_addr \in Targets, reloc_kind \in ObjRelocKind :
        (/\ FirstBelow(target_addr, reloc_kind)
         /\ FirstBest(target_addr, reloc_kind)[2].size > 0
         /\ ~Covers(FirstBest(target_addr, reloc_kind)[2], target_addr.address)) =>
            for_relocation(Self, target_addr, reloc_kind) = Ok(None)

\* C9 on the tables whose global address index holds arena indices only.
C9_OnSoundIndex == NoDanglingIndex => C9_UncoveredStopsScan

\* A table on which C9's case occurs with a lower symbol covering the target.
C9_CaseOccurs ==
    \E target_addr \in Targets, reloc_kind \in ObjRelocKind :
        /\ FirstBelow(target_addr, reloc_kind)
        /\ FirstBest(target_addr, reloc_kind)[2].size > 0
        /\ ~Covers(FirstBest(target_addr, reloc_kind)[2], target_addr.address)
        /\ \E i \in Indices :
            /\ at(Self, i).section = Some(target_addr.section)
            /\ referenced_by(at(Self, i), reloc_kind)
            /\ Covers(at(Self, i), target_addr.address)
        /\ for_relocation(Self, target_addr, reloc_kind) = Ok(None)

----------------------------------------------------------------------------
(* Best-match ranking *)

\* The rank of the table of section 4.8 of the specification.
TableRank(symbol, reloc_kind) ==
    LET split == reloc_kind \in {"PpcAddr16Hi", "PpcAddr16Ha", "PpcAddr16Lo"}
        base == IF symbol.kind = "Section" THEN -1
                ELSE IF symbol.kind = "Unknown"
                THEN (IF split /\ SubSeq(symbol.name, 1, 2) # <<".", ".">> THEN 3 ELSE 1)
                ELSE (IF split THEN 1 ELSE 2)
    IN  base + (IF symbol.size > 0 THEN 1 ELSE 0)

\* The positions of the candidates of maximal rank.
TopRanked(reloc_kind) ==
    {p \in 1..Len(symbols) :
        \A q \in 1..Len(symbols) :
            TableRank(symbols[q], reloc_kind) <= TableRank(symbols[p], reloc_kind)}

\* C10: for every non-empty candidate list and relocation kind, best_match_for_reloc
\* returns the first candidate in input order among those of maximal rank, the rank
\* being that of the table of section 4.8 plus 1 for size > 0.
C10_FirstOfMaximalRank ==
    \A reloc_kind \in ObjRelocKind :
        Len(symbols) >= 1 =>
            best_match_for_reloc(Entries, reloc_kind) =
                Some(Entries[SetMin(TopRanked(reloc_kind))])

\* A Section symbol followed by two unsized Unknown-kind symbols named lbl_1: the
\* first label is the best match of a high-adjusted relocation.
C10_Witness ==
    /\ Len(symbols) = 3
    /\ symbols[1].kind = "Section"
    /\ symbols[2] = Sym(Text_lbl_1, 1, Some(0), 0, FALSE, {}, "Unknown")
    /\ symbols[3] = symbols[2]
    /\ TopRanked("PpcAddr16Ha") = {2, 3}
    /\ best_match_for_reloc(Entries, "PpcAddr16Ha") = Some(Entries[2])
    /\ answer = Answer(Ok(Some(1)))

----------------------------------------------------------------------------
(* Construction and lookup *)

\* Index i is among the indices of the sequence s.
Listed(s, i) == \E p \in 1..Len(s) : s[p] = i

\* C11: after new(kind, symbols) on any list of symbols, for the symbol at every list
\* position i: if it has a section, at_section_address(section, address) yields
\* index i, and if its name is not empty, for_name(name) yields index i.
C11_NewIndexesEverySymbol ==
    \A i \in Indices :
        /\ at(Self, i).section # None =>
               Listed(at_section_address(Self, at(Self, i).section[1],
                                         AsU32(at(Self, i).address)), i)
        /\ at(Self, i).name # <<>> => Listed(for_name(Self, at(Self, i).name), i)

\* A table built from two symbols of one name at one position: both lookups return
\* both indices, and the caller holds them.
C11_Witness ==
    /\ Len(symbols) = 2
    /\ symbols[1] = symbols[2]
    /\ symbols[1].section = Some(1)
    /\ at_section_address(Self, 1, AsU32(symbols[1].address)) = <<0, 1>>
    /\ for_name(Self, symbols[1].name) = <<0, 1>>
    /\ answer = Answer(Ok(<<0, 1>>))

----------------------------------------------------------------------------
(* Arena indices as identities *)

\* A step keeps every arena index and the address and section of its symbol.
IdentitiesKept ==
    /\ Len(symbols') >= Len(symbols)
    /\ \A i \in Indices :
        /\ symbols'[i + 1].address = symbols[i + 1].address
        /\ symbols'[i + 1].section = symbols[i + 1].section

\* A successful insertion of a brand-new symbol returns the count before the call.
NewSymbolGetsCount ==
    /\ \A in_symbol \in MergeInputs, replace_flag \in BOOLEAN :
        LET r == add(Self, in_symbol, replace_flag)
        IN  (r.result.status = "Ok" /\ count(r.self) > count(Self)) =>
                /\ r.result.val = Some(count(Self))
                /\ count(r.self) = count(Self) + 1
    /\ \A in_symbol \in MergeInputs :
        LET r == add_direct(Self, in_symbol)
        IN  r.result.status = "Ok" =>
                /\ r.result.val = Some(count(Self))
                /\ count(r.self) = count(Self) + 1

\* C12: arena indices are permanent identities: across every add, add_direct and
\* replace step, successful or failing, the symbol count never decreases and every
\* existing index still denotes a symbol of the same address and section; a
\* successful insertion of a brand-new symbol gets the previous count as its index.
C12_IndicesArePermanent == []NewSymbolGetsCount /\ [][IdentitiesKept]_vars

\* Two symbols in the arena, the second inserted at index 1, then an add_direct
\* rejected, its index 2 left in the global address index.
C12_Witness ==
    /\ Len(symbols) = 2
    /\ obj_kind = "Relocatable"
    /\ \E k \in DOMAIN symbols_by_address : Listed(symbols_by_address[k], 2)
    /\ add(Self, symbols[2], FALSE).result = Ok(Some(1))

----------------------------------------------------------------------------
(* Merge-insert *)

\* C13: add of any candidate with no section into a table that is not Executable
\* fails with the "absolute symbol in relocatable object" error, whatever the
\* candidate's address, its Common flag and the replace argument, and leaves the
\* table unchanged.
C13_AddRejectsAbsolute ==
    \A in_symbol \in MergeInputs, replace_flag \in BOOLEAN :
        (in_symbol.section = None /\ obj_kind # "Executable") =>
            /\ add(Self, in_symbol, replace_flag).result =
                   Err("ABS symbol in relocatable object")
            /\ add(Self, in_symbol, replace_flag).self = Self

\* A table that is not Executable holding two symbols, one of them unsectioned: add
\* rejects a Common candidate of the same name and a candidate at address 0, both of
\* which add_direct accepts.
C13_Witness ==
    /\ obj_kind = "Relocatable"
    /\ Len(symbols) = 2
    /\ \E i \in Indices, in_symbol \in MergeInputs :
        /\ at(Self, i).section = None
        /\ in_symbol.section = None
        /\ in_symbol.name = at(Self, i).name
        /\ is_common(in_symbol.flags)
        /\ add(Self, in_symbol, TRUE).result.status = "Err"
        /\ add_direct(Self, in_symbol).result.status = "Ok"
    /\ \E in_symbol \in MergeInputs :
        /\ in_symbol.section = None
        /\ in_symbol.address = 0
        /\ add(Self, in_symbol, FALSE).result.status = "Err"
        /\ add_direct(Self, in_symbol).result.status = "Ok"

----------------------------------------------------------------------------
(* Lookup by kind *)

\* The symbols of the kind stored at (section_idx, addr).
StoredOfKind(section_idx, addr, kind) ==
    {i \in Indices : /\ at(Self, i).section = Some(section_idx)
                     /\ AsU32(at(Self, i).address) = addr
                     /\ at(Self, i).kind = kind}

\* C14: kind_at_section_address(section, address, kind) returns an error exactly when
\* more than one symbol of that kind is stored at that (section, address); otherwise
\* it returns the single such symbol, or none when there is no such symbol.
C14_ErrorIffAmbiguous ==
    \A section_idx \in {0, 1}, addr \in {0, 1}, kind \in ObjSymbolKind :
        LET stored == StoredOfKind(section_idx, addr, kind)
            r == kind_at_section_address(Self, section_idx, addr, kind)
        IN  /\ r.status = "Err" <=> Cardinality(stored) > 1
            /\ Cardinality(stored) = 1 => r = Ok(Some(CHOOSE i \in stored : TRUE))
            /\ stored = {} => r = Ok(None)

\* Two Functions and no Object at (section 0, address 0): the lookup of a Function
\* fails, that of an Object finds none, and the caller holds the error.
C14_Witness ==
    /\ Cardinality(StoredOfKind(0, 0, "Function")) = 2
    /\ kind_at_section_address(Self, 0, 0, "Function").status = "Err"
    /\ kind_at_section_address(Self, 0, 0, "Object") = Ok(None)
    /\ answer = Answer(Err("Multiple symbols of kind at address"))

----------------------------------------------------------------------------
(* Scope of a flag set *)

ScopeBits == {"Local", "Weak", "Global"}

\* C15: for every flag set f and every scope s of Unknown, Global, Weak and Local:
\* after f.set_scope(s) at most one of the Local, Weak and Global bits is set (none
\* for Unknown), f.scope() returns s, and the Common, Hidden, ForceActive and
\* RelocationIgnore bits are unchanged.
C15_SetScopeThenScope ==
    \A idx \in Indices, s \in ObjSymbolScope :
        LET f == flags(Self, idx)
            g == set_scope(f, s)
        IN  /\ Cardinality(g \cap ScopeBits) <= 1
            /\ s = "Unknown" => g \cap ScopeBits = {}
            /\ scope(g) = s
            /\ g \ ScopeBits = f \ ScopeBits

\* A symbol rescoped to Global with all four other bits set; the caller holds the
\* scope read back, and the flag set would lose its scope bit under set_scope(Unknown).
C15_Witness ==
    /\ Len(symbols) = 1
    /\ flags(Self, 0) = {"Global", "Common", "Hidden", "ForceActive", "RelocationIgnore"}
    /\ set_scope(flags(Self, 0), "Unknown") = flags(Self, 0) \ {"Global"}
    /\ set_scope(ObjSymbolFlags, "Global") = flags(Self, 0)
    /\ answer = Answer(Ok(Some("Global")))

\* The stored symbols the merge search of add accepts for the candidate.
Matches(in_symbol) ==
    {i \in Indices :
        IF in_symbol.section # None
        THEN /\ at(Self, i).section = in_symbol.section
             /\ AsU32(at(Self, i).address) = AsU32(in_symbol.address)
             /\ \/ at(Self, i).kind = in_symbol.kind
                \/ /\ at(Self, i).kind = "Unknown"
                   /\ is_auto_symbol(at(Self, i).name)
        ELSE /\ obj_kind = "Executable"
             /\ at(Self, i).section = None
             /\ at(Self, i).name = in_symbol.name}

\* C16: when add(candidate, replace = false) finds a matching existing symbol, it
\* returns the existing index, the symbol count is unchanged, and every field of the
\* existing symbol other than size and size_known is unchanged; size and size_known
\* change only when the existing size was unknown and the candidate's size is known.
C16_KeepChangesSizeOnly ==
    \A in_symbol \in MergeInputs :
        Matches(in_symbol) # {} =>
            LET r == add(Self, in_symbol, FALSE)
            IN  /\ r.result.status = "Ok"
                /\ r.result.val # None
                /\ r.result.val[1] \in Matches(in_symbol)
                /\ count(r.self) = count(Self)
                /\ LET before == at(Self, r.result.val[1])
                       after == at(r.self, r.result.val[1])
                   IN  /\ [after EXCEPT !.size = before.size,
                                        !.size_known = before.size_known] = before
                       /\ (after.size # before.size \/ after.size_known # before.size_known)
                              => (~before.size_known /\ in_symbol.size_known)

\* add(candidate, replace = false) of a Function of known size 1 matches an
\* auto-named placeholder of unknown size: the placeholder takes the size and keeps
\* its name and kind.
C16_Witness ==
    \E in_symbol \in MergeInputs, i \in Indices :
        /\ Len(symbols) = 2
        /\ i \in Matches(in_symbol)
        /\ in_symbol.size_known
        /\ in_symbol.size = 1
        /\ in_symbol.kind = "Function"
        /\ ~at(Self, i).size_known
        /\ at(Self, i).kind = "Unknown"
        /\ at(Self, i).name = Text_lbl_1
        /\ LET r == add(Self, in_symbol, FALSE)
           IN  /\ r.result = Ok(Some(i))
               /\ at(r.self, i) = [at(Self, i) EXCEPT !.size = 1, !.size_known = TRUE]

\* add(in_symbol, replace = true) merges into an existing symbol.
Merges(in_symbol) ==
    /\ Matches(in_symbol) # {}
    /\ add(Self, in_symbol, TRUE).result.status = "Ok"

\* The symbol add(in_symbol, replace = true) merged into, before the call.
MergedBefore(in_symbol) == at(Self, add(Self, in_symbol, TRUE).result.val[1])

\* The symbol add(in_symbol, replace = true) merged into, after the call.
MergedAfter(in_symbol) ==
    at(add(Self, in_symbol, TRUE).self, add(Self, in_symbol, TRUE).result.val[1])

\* C17 as claimed: when add(candidate, replace = true) merges into an existing symbol,
\* the stored record afterwards has size_known = true if either side already knew a
\* size (existing.size_known or candidate.size_known) or the candidate's size is
\* non-zero.
C17_EitherSideKnown ==
    \A in_symbol \in MergeInputs :
        Merges(in_symbol) =>
            ((\/ MergedBefore(in_symbol).size_known
              \/ in_symbol.size_known
              \/ in_symbol.size # 0) => MergedAfter(in_symbol).size_known)

\* C17 as amended: when add(candidate, replace = true) merges into an existing symbol,
\* the stored record afterwards has size_known = true exactly when the existing
\* symbol's size was known or the candidate's size is non-zero; the candidate's
\* size_known does not count.
C17_ExistingKnownOrNonZero ==
    \A in_symbol \in MergeInputs :
        Merges(in_symbol) =>
            (MergedAfter(in_symbol).size_known <=>
                (MergedBefore(in_symbol).size_known \/ in_symbol.size # 0))

\* A symbol of unknown size: merging a candidate of known size 0 leaves size_known
\* false, merging a candidate of size 1 not marked known sets it.
C17_Witness ==
    /\ Len(symbols) = 2
    /\ \E in_symbol \in MergeInputs :
        /\ Merges(in_symbol)
        /\ ~MergedBefore(in_symbol).size_known
        /\ in_symbol.size_known
        /\ in_symbol.size = 0
        /\ ~MergedAfter(in_symbol).size_known
    /\ \E in_symbol \in MergeInputs :
        /\ Merges(in_symbol)
        /\ ~MergedBefore(in_symbol).size_known
        /\ ~in_symbol.size_known
        /\ in_symbol.size = 1
        /\ MergedAfter(in_symbol).size_known

\* The first stored symbol the merge search accepts for the sectioned candidate is
\* an Unknown-kind symbol with an auto-generated name.
PlaceholderFirst(in_symbol) ==
    /\ in_symbol.section # None
    /\ Matches(in_symbol) # {}
    /\ at(Self, SetMin(Matches(in_symbol))).kind = "Unknown"
    /\ is_auto_symbol(at(Self, SetMin(Matches(in_symbol))).name)

\* add(in_symbol, replace = true) stores the candidate at the placeholder's index i.
Superseded(in_symbol, i) ==
    LET r == add(Self, in_symbol, TRUE)
    IN  /\ count(r.self) = count(Self)
        /\ r.result = Ok(Some(i))
        /\ at(r.self, i).name = in_symbol.name
        /\ at(r.self, i).kind = in_symbol.kind
        /\ at(r.self, i).flags = in_symbol.flags
        /\ in_symbol.name # <<>> => Listed(for_name(r.self, in_symbol.name), i)

\* C18 as claimed: when add(candidate, replace = true) is called with a sectioned
\* candidate and the first symbol at its position that has the candidate's kind or is
\* an auto-named Unknown is such a placeholder, the count does not grow, the index
\* returned is the placeholder's, that index then holds the candidate's name, kind
\* and flags, and the name index lists it under the candidate's name (if not empty)
\* and no longer under the placeholder's old name.
C18_PlaceholderSuperseded ==
    \A in_symbol \in MergeInputs :
        PlaceholderFirst(in_symbol) =>
            LET i == SetMin(Matches(in_symbol))
            IN  /\ Superseded(in_symbol, i)
                /\ ~Listed(for_name(add(Self, in_symbol, TRUE).self, at(Self, i).name), i)

\* C18 as amended: in the same case the count does not grow, the index returned is
\* the placeholder's, that index then holds the candidate's name, kind and flags, and
\* the name index lists it under the candidate's name (if not empty); it no longer
\* lists it under the placeholder's old name if the candidate's name differs from
\* that name, and still lists it there if the two names are equal.
C18_SupersededUnlessSameName ==
    \A in_symbol \in MergeInputs :
        PlaceholderFirst(in_symbol) =>
            LET i == SetMin(Matches(in_symbol))
            IN  /\ Superseded(in_symbol, i)
                /\ Listed(for_name(add(Self, in_symbol, TRUE).self, at(Self, i).name), i)
                       <=> in_symbol.name = at(Self, i).name

\* A placeholder followed by a second symbol at its position: a Function of another
\* name supersedes it and unfiles the old name, an unnamed Function supersedes it
\* too, and a candidate bearing the placeholder's own name leaves it filed.
C18_Witness ==
    /\ Len(symbols) = 2
    /\ at(Self, 0).kind = "Unknown"
    /\ at(Self, 0).name = Text_lbl_1
    /\ at(Self, 1).section = at(Self, 0).section
    /\ at(Self, 1).address = at(Self, 0).address
    /\ \E in_symbol \in MergeInputs :
        /\ PlaceholderFirst(in_symbol)
        /\ in_symbol.kind = "Function"
        /\ in_symbol.name = Text_foo
        /\ add(Self, in_symbol, TRUE).result = Ok(Some(0))
        /\ for_name(add(Self, in_symbol, TRUE).self, Text_lbl_1) = <<>>
        /\ Listed(for_name(add(Self, in_symbol, TRUE).self, Text_foo), 0)
    /\ \E in_symbol \in MergeInputs :
        /\ PlaceholderFirst(in_symbol)
        /\ in_symbol.name = <<>>
        /\ add(Self, in_symbol, TRUE).result = Ok(Some(0))
        /\ for_name(add(Self, in_symbol, TRUE).self, Text_lbl_1) = <<>>
    /\ \E in_symbol \in MergeInputs :
        /\ PlaceholderFirst(in_symbol)
        /\ in_symbol.name = Text_lbl_1
        /\ add(Self, in_symbol, TRUE).result = Ok(Some(0))
        /\ for_name(add(Self, in_symbol, TRUE).self, Text_lbl_1) = <<0>>

\* C19: in a table built from an empty symbol list by add calls only (any candidates,
\* any replace values), no (section, address) position holds two symbols of one
\* kind, so kind_at_section_address never returns the ambiguity error on it.
C19_AddKeepsKindsDistinct ==
    \A section_idx \in {0, 1}, addr \in {0, 1}, kind \in ObjSymbolKind :
        /\ Cardinality(StoredOfKind(section_idx, addr, kind)) <= 1
        /\ kind_at_section_address(Self, section_idx, addr, kind).status # "Err"

\* The unsectioned symbols of an Executable table bearing the candidate's name.
AbsNamed(in_symbol) ==
    {i \in Indices : /\ obj_kind = "Executable"
                     /\ in_symbol.section = None
                     /\ at(Self, i).section = None
                     /\ at(Self, i).name = in_symbol.name}

\* The first of them in ascending address order, arena order within one address.
FirstAbsNamed(in_symbol) ==
    CHOOSE i \in AbsNamed(in_symbol) :
        \A j \in AbsNamed(in_symbol) :
            \/ AsU32(at(Self, i).address) < AsU32(at(Self, j).address)
            \/ /\ AsU32(at(Self, i).address) = AsU32(at(Self, j).address)
               /\ i <= j

\* add(in_symbol, replace = true) fails with the address error of replace and leaves
\* the arena and all indices as they were.
RejectedForAddress(in_symbol) ==
    /\ add(Self, in_symbol, TRUE).result = Err("Can't modify address with replace_symbol")
    /\ add(Self, in_symbol, TRUE).self = Self

\* C20 as claimed: in an Executable table, add(candidate, replace = true) with an
\* unsectioned candidate whose name equals that of an existing unsectioned symbol
\* stored at a different address returns the illegal-mutation error of replace
\* (the address may not change), adds no symbol, and leaves the arena and all indices
\* unchanged.
C20_NameClashRejected ==
    \A in_symbol \in MergeInputs :
        (\E i \in AbsNamed(in_symbol) : at(Self, i).address # in_symbol.address) =>
            RejectedForAddress(in_symbol)

\* C20 as amended: in an Executable table, add(candidate, replace = true) with an
\* unsectioned candidate whose name is borne by existing unsectioned symbols returns
\* the illegal-mutation error of replace, adds no symbol and leaves the arena and all
\* indices unchanged exactly when the first of those symbols in ascending address
\* order is stored at a different address; when that first symbol is at the
\* candidate's address the candidate is merged into it, whatever other symbols of
\* the name are stored elsewhere.
C20_FirstNamedDecides ==
    \A in_symbol \in MergeInputs :
        AbsNamed(in_symbol) # {} =>
            IF at(Self, FirstAbsNamed(in_symbol)).address # in_symbol.address
            THEN RejectedForAddress(in_symbol)
            ELSE /\ add(Self, in_symbol, TRUE).result = Ok(Some(FirstAbsNamed(in_symbol)))
                 /\ count(add(Self, in_symbol, TRUE).self) = count(Self)

\* An Executable table with two unsectioned symbols of one name at addresses 0 and 1:
\* the candidate of that name at address 1 is rejected, the one at address 0 is
\* merged into the symbol at address 0.
C20_Witness ==
    /\ obj_kind = "Executable"
    /\ Len(symbols) = 2
    /\ \E in_symbol \in MergeInputs :
        /\ Cardinality(AbsNamed(in_symbol)) = 2
        /\ in_symbol.address = 1
        /\ at(Self, FirstAbsNamed(in_symbol)).address = 0
        /\ RejectedForAddress(in_symbol)
    /\ \E in_symbol \in MergeInputs :
        /\ Cardinality(AbsNamed(in_symbol)) = 2
        /\ in_symbol.address = 0
        /\ \E i \in AbsNamed(in_symbol) : at(Self, i).address = 1
        /\ add(Self, in_symbol, TRUE).result = Ok(Some(FirstAbsNamed(in_symbol)))

====
